---- MODULE Spec2Model ----
(***************************************************************************)
(* A model of the CredHub key store of kes (internal/keystore/credhub):    *)
(* the store operations Status, Create, Set, Get, Delete and List, the     *)
(* iterator of List, the singleflight group Create and Set run under, the  *)
(* value codec and the interpretation of the HTTP responses; and of the    *)
(* static store (internal/keystore/staticlist).                            *)
(*                                                                         *)
(* Text (names, JSON strings, values) is a sequence: a name is a sequence  *)
(* of path tokens, a value or a JSON string is a sequence of bytes         *)
(* (0..255).  A caller is one invocation of a store operation (one         *)
(* goroutine); callers are numbered in the order they are invoked.         *)
(***************************************************************************)
EXTENDS Integers, Sequences, FiniteSets, TLC

(***************************************************************************)
(* Bounds of the model.                                                    *)
(***************************************************************************)
\* The number of store calls (callers) in one behaviour.
NumCallers == 2

\* The largest number of versions a 2xx GET response of the backend lists.
MaxVersions == 2

Callers == 1..NumCallers

\* s.config.Namespace of the store under test, and the names callers use.
Namespace == <<"test-namespace">>
Names == {<<"key-1">>, <<"key-2">>}

\* The values callers write: the text "a" and the byte 0xFF (no valid text).
Values == {<<97>>, <<255>>}

(***************************************************************************)
(* The value codec (BytesToJsonString / JsonStringToBytes).                *)
(***************************************************************************)
\* "Base64:" as bytes.
Base64Prefix == <<66, 97, 115, 101, 54, 52, 58>>

HasPrefix(s, p) == Len(s) >= Len(p) /\ SubSeq(s, 1, Len(p)) = p

\* The padding character '='.
PadChar == 61

\* The character of the standard base64 alphabet for the sextet n.
B64Char(n) ==
    IF n < 26 THEN 65 + n
    ELSE IF n < 52 THEN 97 + (n - 26)
    ELSE IF n < 62 THEN 48 + (n - 52)
    ELSE IF n = 62 THEN 43
    ELSE 47

\* The sextet of a base64 character, -1 for a character outside the alphabet.
B64Val(ch) ==
    IF ch >= 65 /\ ch <= 90 THEN ch - 65
    ELSE IF ch >= 97 /\ ch <= 122 THEN ch - 97 + 26
    ELSE IF ch >= 48 /\ ch <= 57 THEN ch - 48 + 52
    ELSE IF ch = 43 THEN 62
    ELSE IF ch = 47 THEN 63
    ELSE -1

\* base64.StdEncoding.EncodeToString: 3 bytes to 4 characters, '=' padded.
RECURSIVE B64Encode(_)
B64Encode(b) ==
    IF Len(b) = 0 THEN <<>>
    ELSE IF Len(b) = 1 THEN
        <<B64Char(b[1] \div 4), B64Char((b[1] % 4) * 16), PadChar, PadChar>>
    ELSE IF Len(b) = 2 THEN
        <<B64Char(b[1] \div 4),
          B64Char((b[1] % 4) * 16 + (b[2] \div 16)),
          B64Char((b[2] % 16) * 4), PadChar>>
    ELSE
        <<B64Char(b[1] \div 4),
          B64Char((b[1] % 4) * 16 + (b[2] \div 16)),
          B64Char((b[2] % 16) * 4 + (b[3] \div 64)),
          B64Char(b[3] % 64)>> \o B64Encode(SubSeq(b, 4, Len(b)))

\* base64.StdEncoding.DecodeString: [ok, bytes]; the input is a whole number
\* of 4-character groups, padded only at the end of the last group.
RECURSIVE B64Decode(_)
B64Decode(s) ==
    IF Len(s) = 0 THEN [ok |-> TRUE, bytes |-> <<>>]
    ELSE IF Len(s) < 4 THEN [ok |-> FALSE, bytes |-> <<>>]
    ELSE
        LET a == B64Val(s[1])
            b == B64Val(s[2])
            c == B64Val(s[3])
            d == B64Val(s[4])
            last == Len(s) = 4
        IN  IF a < 0 \/ b < 0 THEN [ok |-> FALSE, bytes |-> <<>>]
            ELSE IF s[3] = PadChar THEN
                IF last /\ s[4] = PadChar
                THEN [ok |-> TRUE, bytes |-> <<a * 4 + (b \div 16)>>]
                ELSE [ok |-> FALSE, bytes |-> <<>>]
            ELSE IF c < 0 THEN [ok |-> FALSE, bytes |-> <<>>]
            ELSE IF s[4] = PadChar THEN
                IF last
                THEN [ok |-> TRUE,
                      bytes |-> <<a * 4 + (b \div 16),
                                  (b % 16) * 16 + (c \div 4)>>]
                ELSE [ok |-> FALSE, bytes |-> <<>>]
            ELSE IF d < 0 THEN [ok |-> FALSE, bytes |-> <<>>]
            ELSE
                LET rest == B64Decode(SubSeq(s, 5, Len(s)))
                IN  IF rest.ok
                    THEN [ok |-> TRUE,
                          bytes |-> <<a * 4 + (b \div 16),
                                      (b % 16) * 16 + (c \div 4),
                                      (c % 4) * 64 + d>> \o rest.bytes]
                    ELSE [ok |-> FALSE, bytes |-> <<>>]

\* A continuation byte of UTF-8 (10xxxxxx).
IsCont(x) == x >= 128 /\ x <= 191

\* utf8.Valid: the bytes are well-formed UTF-8.
RECURSIVE Utf8Valid(_)
Utf8Valid(b) ==
    IF Len(b) = 0 THEN TRUE
    ELSE
        LET x == b[1]
            n == Len(b)
        IN  IF x < 128 THEN Utf8Valid(SubSeq(b, 2, n))
            ELSE IF x >= 194 /\ x <= 223 THEN
                n >= 2 /\ IsCont(b[2]) /\ Utf8Valid(SubSeq(b, 3, n))
            ELSE IF x >= 224 /\ x <= 239 THEN
                /\ n >= 3
                /\ IsCont(b[2])
                /\ IsCont(b[3])
                /\ (x = 224 => b[2] >= 160)
                /\ (x = 237 => b[2] <= 159)
                /\ Utf8Valid(SubSeq(b, 4, n))
            ELSE IF x >= 240 /\ x <= 244 THEN
                /\ n >= 4
                /\ IsCont(b[2])
                /\ IsCont(b[3])
                /\ IsCont(b[4])
                /\ (x = 240 => b[2] >= 144)
                /\ (x = 244 => b[2] <= 143)
                /\ Utf8Valid(SubSeq(b, 5, n))
            ELSE FALSE

\* encode: base64 under the "Base64:" prefix when forced, when the bytes are
\* no valid text, or when the text starts with the prefix; else the text.
BytesToJsonString(bytes, forceBase64) ==
    IF forceBase64 \/ ~Utf8Valid(bytes) \/ HasPrefix(bytes, Base64Prefix)
    THEN Base64Prefix \o B64Encode(bytes)
    ELSE bytes

\* decode: [ok, bytes]; a "Base64:" string is base64-decoded, any other
\* string is its own bytes.
JsonStringToBytes(str) ==
    IF HasPrefix(str, Base64Prefix)
    THEN B64Decode(SubSeq(str, Len(Base64Prefix) + 1, Len(str)))
    ELSE [ok |-> TRUE, bytes |-> str]

(***************************************************************************)
(* Errors, requests and responses.                                         *)
(***************************************************************************)
\* http.StatusNotFound.
StatusNotFound == 404

\* A response body: `valid` says that it decodes as JSON into the struct the
\* operation reads; `data` is the "data" array of a lookup (the "value" of
\* each version), `status` the "status" field of a health check,
\* `credentials` the "name" of each entry of the "credentials" array of a
\* listing.
JsonBody(data, status) ==
    [valid |-> TRUE, data |-> data, status |-> status, credentials |-> <<>>]
NoBody == [valid |-> FALSE, data |-> <<>>, status |-> "", credentials |-> <<>>]

\* An error value: its kind, and the status text and body it carries.
Err(kind, status, body) == [kind |-> kind, status |-> status, body |-> body]
NilErr == Err("nil", "", NoBody)
ErrExists == Err("kv.ErrExists", "", NoBody)
ErrNotExists == Err("kv.ErrNotExists", "", NoBody)
\* The error of the HTTP client when the request got no response.
TransportErr == Err("transport", "", NoBody)

\* HttpResponse.
Response(code, status, body) ==
    [err |-> NilErr, StatusCode |-> code, Status |-> status, Body |-> body]
FailedResponse(e) ==
    [err |-> e, StatusCode |-> 0, Status |-> "", Body |-> NoBody]

\* HttpResponse.IsStatusCode2xx.
IsStatusCode2xx(resp) == resp.StatusCode >= 200 /\ resp.StatusCode < 300

\* The body of a request: the JSON object of a PUT, empty otherwise.
NoPayload == [name |-> <<>>, type |-> "", value |-> <<>>]
Request(method, uri, payload) ==
    [method |-> method, uri |-> uri, payload |-> payload]

\* config.Namespace + "/" + name: the credential name, and the dedup key.
CredName(ns, name) == ns \o <<"/">> \o name

(***************************************************************************)
(* What each operation makes of a response.                                *)
(***************************************************************************)
\* StatusResult with the "UP" check lost: any 2xx body that decodes passes.
StatusResultAnyStatus(resp) ==
    IF resp.err # NilErr THEN resp.err
    ELSE IF IsStatusCode2xx(resp) THEN
        IF ~resp.Body.valid THEN Err("failed to parse response", "", NoBody)
        ELSE NilErr
    ELSE Err("the CredHub is not healthy", resp.Status, NoBody)

\* Store.Status after DoRequest: the error returned.
StatusResult(resp) ==
    IF resp.err # NilErr THEN resp.err
    ELSE IF IsStatusCode2xx(resp) THEN
        IF ~resp.Body.valid THEN Err("failed to parse response", "", NoBody)
        ELSE IF resp.Body.status = "UP" THEN NilErr
        ELSE Err("CredHub is not UP", resp.Body.status, NoBody)
    ELSE Err("the CredHub is not healthy", resp.Status, NoBody)

\* Store.put after DoRequest: the error returned.
PutResult(resp) ==
    IF resp.err # NilErr THEN resp.err
    ELSE IF IsStatusCode2xx(resp) THEN NilErr
    ELSE Err("failed to set entry", resp.Status, resp.Body)

\* GetResult taking the first of several versions.
GetResultFirstVersion(resp) ==
    IF resp.err # NilErr THEN [val |-> <<>>, err |-> resp.err]
    ELSE IF resp.StatusCode = StatusNotFound
    THEN [val |-> <<>>, err |-> ErrNotExists]
    ELSE IF ~IsStatusCode2xx(resp)
    THEN [val |-> <<>>,
          err |-> Err("failed to get entry", resp.Status, resp.Body)]
    ELSE IF ~resp.Body.valid
    THEN [val |-> <<>>, err |-> Err("json decode", "", NoBody)]
    ELSE IF Len(resp.Body.data) = 0
    THEN [val |-> <<>>, err |-> ErrNotExists]
    ELSE LET d == JsonStringToBytes(resp.Body.data[1])
         IN  IF d.ok THEN [val |-> d.bytes, err |-> NilErr]
             ELSE [val |-> <<>>, err |-> Err("base64 decode", "", NoBody)]

\* Store.Get after DoRequest: the value and the error returned.
GetResult(resp) ==
    IF resp.err # NilErr THEN [val |-> <<>>, err |-> resp.err]
    ELSE IF resp.StatusCode = StatusNotFound
    THEN [val |-> <<>>, err |-> ErrNotExists]
    ELSE IF ~IsStatusCode2xx(resp)
    THEN [val |-> <<>>,
          err |-> Err("failed to get entry", resp.Status, resp.Body)]
    ELSE IF ~resp.Body.valid
    THEN [val |-> <<>>, err |-> Err("json decode", "", NoBody)]
    ELSE IF Len(resp.Body.data) = 0
    THEN [val |-> <<>>, err |-> ErrNotExists]
    ELSE IF Len(resp.Body.data) > 1
    THEN [val |-> <<>>, err |-> Err("received multiple entries", "", NoBody)]
    ELSE LET d == JsonStringToBytes(resp.Body.data[1])
         IN  IF d.ok THEN [val |-> d.bytes, err |-> NilErr]
             ELSE [val |-> <<>>, err |-> Err("base64 decode", "", NoBody)]

\* DeleteResult with 404 treated as any other status that is not 2xx.
DeleteResultNo404(resp) ==
    IF resp.err # NilErr THEN resp.err
    ELSE IF ~IsStatusCode2xx(resp)
    THEN Err("failed to delete entry", resp.Status, resp.Body)
    ELSE NilErr

\* Store.Delete after DoRequest: the error returned.
DeleteResult(resp) ==
    IF resp.err # NilErr THEN resp.err
    ELSE IF resp.StatusCode = StatusNotFound THEN ErrNotExists
    ELSE IF ~IsStatusCode2xx(resp)
    THEN Err("failed to delete entry", resp.Status, resp.Body)
    ELSE NilErr

\* The requests the operations send.
StatusRequest == Request("GET", <<"/health">>, NoPayload)
\* GetRequest with the name of the first key in place of the caller's.
GetRequestFixedName(ns, name) ==
    Request("GET",
            <<"/api/v1/data?current=true&name=">> \o CredName(ns, <<"key-1">>),
            NoPayload)

GetRequest(ns, name) ==
    Request("GET", <<"/api/v1/data?current=true&name=">> \o CredName(ns, name),
            NoPayload)
DeleteRequest(ns, name) ==
    Request("DELETE", <<"/api/v1/data?name=">> \o CredName(ns, name), NoPayload)
\* PutRequest with the value sent as it is, not through the codec.
PutRequestRaw(ns, name, value, force) ==
    Request("PUT", <<"/api/v1/data">>,
            [name |-> CredName(ns, name), type |-> "value", value |-> value])

\* PutRequest with the encoding forced whatever the configuration says.
PutRequestForced(ns, name, value, force) ==
    Request("PUT", <<"/api/v1/data">>,
            [name |-> CredName(ns, name), type |-> "value",
             value |-> BytesToJsonString(value, TRUE)])

PutRequest(ns, name, value, force) ==
    Request("PUT", <<"/api/v1/data">>,
            [name |-> CredName(ns, name), type |-> "value",
             value |-> BytesToJsonString(value, force)])

(***************************************************************************)
(* The state.                                                              *)
(***************************************************************************)
VARIABLES
    config,   \* Store.config: [Namespace, ForceBase64ValuesEncoding]
    backend,  \* the credentials CredHub holds: credential name -> entry
    sfGroup,  \* Store.sfGroup.m of each store: dedup key -> the caller whose
              \* call object is registered under it, 0 when there is none
    callobj,  \* the singleflight call object a caller registered: [done, err]
    pc,       \* where each caller is in its operation
    call,     \* the operation each caller invoked and its arguments
    joined,   \* the caller whose call object a waiting caller holds, or 0
    log,      \* the requests each caller sent, each with its response
    ret,      \* what the operation returned to the caller: [val, err]
    iter,     \* the keysIter a List call returned to the caller
    yield,    \* what the calls of Next returned to the caller, in order
    cancelled,\* the callers whose context is cancelled
    entries,  \* config.Entries of the static store: key -> value
    closed    \* what the calls of Close on the caller's iterator returned

\* The variables the operations of the remote store leave alone.
otherVars == <<iter, yield, cancelled, entries, closed>>

vars == <<config, backend, sfGroup, callobj, pc, call, joined, log, ret,
          otherVars>>

\* The store instances: each has its own sfGroup, all talk to one backend.
Stores == {"s1", "s2"}
\* The store instance of the calls that share one store.
OneStore == {"s1"}

CredNames == {CredName(Namespace, n) : n \in Names}

NoEntry == [present |-> FALSE, value |-> <<>>]
Entry(v) == [present |-> TRUE, value |-> v]

NoCall == [op |-> "none", store |-> "", name |-> <<>>, value |-> <<>>]
NoCallObj == [done |-> FALSE, err |-> NilErr]
NoRet == [val |-> <<>>, err |-> NilErr]

\* No iterator: the caller has not listed, or List returned an error.
NoIter == [keys |-> <<>>, index |-> 0, open |-> FALSE]

\* The entries of the static store of the tests: key1 -> value1,
\* key2 -> value2, the values as bytes.
TestEntries ==
    (<<"key1">> :> <<118, 97, 108, 117, 101, 49>>)
    @@ (<<"key2">> :> <<118, 97, 108, 117, 101, 50>>)

\* The store after NewStore, with no call made yet.
InitCalls ==
    /\ config \in {[Namespace |-> Namespace, ForceBase64ValuesEncoding |-> f] :
                     f \in BOOLEAN}
    /\ sfGroup = [s \in Stores |-> [k \in CredNames |-> 0]]
    /\ callobj = [c \in Callers |-> NoCallObj]
    /\ pc = [c \in Callers |-> "idle"]
    /\ call = [c \in Callers |-> NoCall]
    /\ joined = [c \in Callers |-> 0]
    /\ log = [c \in Callers |-> <<>>]
    /\ ret = [c \in Callers |-> NoRet]
    /\ iter = [c \in Callers |-> NoIter]
    /\ yield = [c \in Callers |-> <<>>]
    /\ cancelled = {}
    /\ closed = [c \in Callers |-> <<>>]

\* The remote store after NewStore, on a backend that holds no credential.
InitStore ==
    /\ InitCalls
    /\ backend = [n \in CredNames |-> NoEntry]

Init ==
    /\ InitStore
    /\ entries = TestEntries

(***************************************************************************)
(* The backend: CredHub as a map from credential names to values, and the  *)
(* responses it gives when it or the network fails.                        *)
(***************************************************************************)
\* The credential name a request is about: the URI after its first token.
UriName(req) == Tail(req.uri)

\* The response to a lookup: the current version of a credential that
\* exists, 404 for one that does not.
LookupResponse(b, req) ==
    IF b[UriName(req)].present
    THEN Response(200, "200 OK", JsonBody(<<b[UriName(req)].value>>, ""))
    ELSE Response(404, "404 Not Found", NoBody)

\* The response to a write that the backend carries out.
WriteResponse == Response(200, "200 OK", NoBody)

\* The backend carried the write or the delete out: it answered 2xx.
Applied(resp) ==
    resp.err = NilErr /\ resp.StatusCode >= 200 /\ resp.StatusCode < 300

\* The response to a delete: 204 for a credential that exists, else 404.
RemoveResponse(b, req) ==
    IF b[UriName(req)].present
    THEN Response(204, "204 No Content", NoBody)
    ELSE Response(404, "404 Not Found", NoBody)

\* The failures of concurrent runs: no response, or a server error.
Faults ==
    {FailedResponse(TransportErr),
     Response(500, "500 Internal Server Error", NoBody)}

\* The "value" strings of the versions a lookup may list: the text "a", the
\* base64 form of 0xFF, and a string that is no base64 after the prefix.
VersionStrings ==
    {<<97>>, Base64Prefix \o B64Encode(<<255>>), Base64Prefix \o <<33>>}

RECURSIVE SeqsUpTo(_, _)
SeqsUpTo(S, n) ==
    IF n = 0 THEN {<<>>}
    ELSE LET shorter == SeqsUpTo(S, n - 1)
         IN  shorter \cup {Append(q, x) : q \in shorter, x \in S}

\* A body that does not decode, with the text of an error page.
BadBody ==
    [valid |-> FALSE, data |-> <<>>, status |-> "oops", credentials |-> <<>>]

\* Whatever else a lookup or a delete may be answered with: the failures,
\* other statuses, a body that does not decode, and version lists of every
\* length up to MaxVersions.
OtherResponses ==
    Faults
    \cup {Response(404, "404 Not Found", BadBody),
          Response(302, "302 Found", BadBody),
          Response(201, "201 Created", JsonBody(<<<<97>>>>, "")),
          Response(200, "200 OK", BadBody)}
    \cup {Response(200, "200 OK", JsonBody(d, "")) :
             d \in SeqsUpTo(VersionStrings, MaxVersions)}

\* Whatever else a write may be answered with.
OtherWriteResponses ==
    Faults
    \cup {Response(201, "201 Created", NoBody),
          Response(404, "404 Not Found", BadBody),
          Response(302, "302 Found", BadBody)}

\* The answers to a health check.
HealthResponses ==
    Faults
    \cup {Response(200, "200 OK", JsonBody(<<>>, st)) : st \in {"UP", "DOWN", ""}}
    \cup {Response(200, "200 OK", BadBody),
          Response(204, "204 No Content", JsonBody(<<>>, "UP")),
          Response(404, "404 Not Found", JsonBody(<<>>, "UP")),
          Response(302, "302 Found", JsonBody(<<>>, "UP"))}

(***************************************************************************)
(* singleflight.Group.Do, as Create and Set call it.                       *)
(***************************************************************************)
\* DedupKey with the name left out: one key for the whole namespace.
DedupKeyOfNamespace(ns, name) == ns \o <<"/">> \o <<"key-1">>

\* The dedup key of Create and Set: s.config.Namespace + "/" + name.
DedupKey(ns, name) == ns \o <<"/">> \o name

\* g.m[key] of the caller's store: the registered call, 0 for none.
InFlight(s, key) == sfGroup[s][key]

\* Do up to the call of fn: a caller that finds a call registered under its
\* key holds that call object and waits for it; else it registers its own
\* and goes on to `first`, the first step of fn.
DoEnter(c, s, key, first) ==
    IF InFlight(s, key) # 0
    THEN /\ joined' = [joined EXCEPT ![c] = InFlight(s, key)]
         /\ pc' = [pc EXCEPT ![c] = "wait"]
         /\ UNCHANGED sfGroup
    ELSE /\ sfGroup' = [sfGroup EXCEPT ![s][key] = c]
         /\ pc' = [pc EXCEPT ![c] = first]
         /\ UNCHANGED joined

\* Callers are numbered in the order of their invocation.
MayStart(c) == pc[c] = "idle" /\ (IF c = 1 THEN TRUE ELSE pc[c - 1] # "idle")

\* fn returned err: c.err is set and wg.Done() releases the waiting callers.
FnReturns(c, err) ==
    /\ callobj' = [callobj EXCEPT ![c] = [done |-> TRUE, err |-> err]]
    /\ pc' = [pc EXCEPT ![c] = "fin"]

\* CreateBranch that writes after any failure of the Get.
CreateBranchPutOnError(r) ==
    IF r.err = NilErr THEN [put |-> FALSE, err |-> ErrExists]
    ELSE [put |-> TRUE, err |-> NilErr]

\* CreateBranch with the existence check lost: it writes over a value.
CreateBranchOverwrite(r) ==
    IF r.err = NilErr \/ r.err = ErrNotExists THEN [put |-> TRUE, err |-> NilErr]
    ELSE [put |-> FALSE, err |-> r.err]

\* CreateBranch with not-found propagated as any other error of Get.
CreateBranchNoPut(r) ==
    IF r.err = NilErr THEN [put |-> FALSE, err |-> ErrExists]
    ELSE [put |-> FALSE, err |-> r.err]

\* What the function of Create does with the result of its Get.
CreateBranch(r) ==
    IF r.err = NilErr THEN [put |-> FALSE, err |-> ErrExists]
    ELSE IF r.err = ErrNotExists THEN [put |-> TRUE, err |-> NilErr]
    ELSE [put |-> FALSE, err |-> r.err]

(***************************************************************************)
(* The operations.                                                         *)
(***************************************************************************)
\* Store.Create calling its function outside the group: no call is joined.
CreateCallUngrouped(c, s, name, value) ==
    /\ MayStart(c)
    /\ call' = [call EXCEPT ![c] =
                  [op |-> "Create", store |-> s, name |-> name, value |-> value]]
    /\ sfGroup' = [sfGroup EXCEPT ![s][DedupKey(config.Namespace, name)] = c]
    /\ pc' = [pc EXCEPT ![c] = "create-get"]
    /\ UNCHANGED <<config, backend, callobj, joined, log, ret, otherVars>>

\* Store.Create with one group for every store of the process.
CreateCallSharedGroup(c, s, name, value) ==
    /\ MayStart(c)
    /\ call' = [call EXCEPT ![c] =
                  [op |-> "Create", store |-> s, name |-> name, value |-> value]]
    /\ DoEnter(c, "s1", DedupKey(config.Namespace, name), "create-get")
    /\ UNCHANGED <<config, backend, callobj, log, ret, otherVars>>

\* Store.Create up to the call of fn.
CreateCall(c, s, name, value) ==
    /\ MayStart(c)
    /\ call' = [call EXCEPT ![c] =
                  [op |-> "Create", store |-> s, name |-> name, value |-> value]]
    /\ DoEnter(c, s, DedupKey(config.Namespace, name), "create-get")
    /\ UNCHANGED <<config, backend, callobj, log, ret, otherVars>>

\* Store.Set up to the call of fn.
SetCall(c, s, name, value) ==
    /\ MayStart(c)
    /\ call' = [call EXCEPT ![c] =
                  [op |-> "Set", store |-> s, name |-> name, value |-> value]]
    /\ DoEnter(c, s, DedupKey(config.Namespace, name), "put")
    /\ UNCHANGED <<config, backend, callobj, log, ret, otherVars>>

\* Store.Get up to DoRequest.
GetCall(c, s, name) ==
    /\ MayStart(c)
    /\ call' = [call EXCEPT ![c] =
                  [op |-> "Get", store |-> s, name |-> name, value |-> <<>>]]
    /\ pc' = [pc EXCEPT ![c] = "get"]
    /\ UNCHANGED <<config, backend, sfGroup, callobj, joined, log, ret, otherVars>>

\* Store.Delete up to DoRequest.
DeleteCall(c, s, name) ==
    /\ MayStart(c)
    /\ call' = [call EXCEPT ![c] =
                  [op |-> "Delete", store |-> s, name |-> name, value |-> <<>>]]
    /\ pc' = [pc EXCEPT ![c] = "delete"]
    /\ UNCHANGED <<config, backend, sfGroup, callobj, joined, log, ret, otherVars>>

\* ctx.Err() of a cancelled context.
CtxErr == Err("context canceled", "", NoBody)

\* HttpClient.DoRequest(ctx, ...) for the context of caller c: the request
\* of a caller whose context is cancelled is aborted with the error of the
\* context, any other gets one of the responses.
Answers(c, responses) ==
    IF c \in cancelled THEN {FailedResponse(CtxErr)} ELSE responses

\* HttpResponse.CloseResource: the response is released once more.
CloseResource(e) == [e EXCEPT !.released = @ + 1]

\* Sent with the release placed after the check of resp.err: an operation
\* that returns the transport error does not come to it.
SentUnreleasedOnError(c, req, resp) ==
    log' = [log EXCEPT ![c] =
              Append(@, IF resp.err # NilErr
                        THEN [req |-> req, resp |-> resp, released |-> 0]
                        ELSE CloseResource([req |-> req, resp |-> resp,
                                            released |-> 0]))]

\* resp := s.client.DoRequest(...) and defer resp.CloseResource(): the
\* request and its response, released when the operation returns, which is
\* within the step that interprets the response.
Sent(c, req, resp) ==
    log' = [log EXCEPT ![c] =
              Append(@, CloseResource([req |-> req, resp |-> resp,
                                       released |-> 0]))]

\* The Get inside the function of Create, and what the function does next.
CreateGetStep(c, faults) ==
    /\ pc[c] = "create-get"
    /\ LET req == GetRequest(config.Namespace, call[c].name)
       IN  \E resp \in Answers(c, {LookupResponse(backend, req)} \cup faults) :
               /\ Sent(c, req, resp)
               /\ LET b == CreateBranch(GetResult(resp))
                  IN  IF b.put
                      THEN /\ pc' = [pc EXCEPT ![c] = "put"]
                           /\ UNCHANGED callobj
                      ELSE FnReturns(c, b.err)
    /\ UNCHANGED <<config, backend, sfGroup, call, joined, ret, otherVars>>

\* Store.put, called by the function of Create or of Set.
PutStep(c, faults) ==
    /\ pc[c] = "put"
    /\ LET req == PutRequest(config.Namespace, call[c].name, call[c].value,
                             config.ForceBase64ValuesEncoding)
       IN  \E resp \in Answers(c, {WriteResponse} \cup faults) :
               /\ Sent(c, req, resp)
               /\ backend' = IF Applied(resp)
                             THEN [backend EXCEPT ![req.payload.name] =
                                     Entry(req.payload.value)]
                             ELSE backend
               /\ FnReturns(c, PutResult(resp))
    /\ UNCHANGED <<config, sfGroup, call, joined, ret, otherVars>>

\* DoFinish with the key left in g.m.
DoFinishKeepsKey(c) ==
    /\ pc[c] = "fin"
    /\ ret' = [ret EXCEPT ![c] = [val |-> <<>>, err |-> callobj[c].err]]
    /\ pc' = [pc EXCEPT ![c] = "done"]
    /\ UNCHANGED <<config, backend, sfGroup, callobj, call, joined, log, otherVars>>

\* Do after fn: delete(g.m, key), and Create or Set returns c.err.
DoFinish(c) ==
    /\ pc[c] = "fin"
    /\ sfGroup' = [sfGroup EXCEPT
                     ![call[c].store][DedupKey(config.Namespace, call[c].name)] = 0]
    /\ ret' = [ret EXCEPT ![c] = [val |-> <<>>, err |-> callobj[c].err]]
    /\ pc' = [pc EXCEPT ![c] = "done"]
    /\ UNCHANGED <<config, backend, callobj, call, joined, log, otherVars>>

\* Do of a caller that found a call in flight: c.wg.Wait() returns once the
\* call is done, and Create or Set returns that call's c.err.
DoWait(c) ==
    /\ pc[c] = "wait"
    /\ callobj[joined[c]].done
    /\ ret' = [ret EXCEPT ![c] = [val |-> <<>>, err |-> callobj[joined[c]].err]]
    /\ pc' = [pc EXCEPT ![c] = "done"]
    /\ UNCHANGED <<config, backend, sfGroup, callobj, call, joined, log, otherVars>>

\* Store.Get from DoRequest on.
GetStep(c, faults) ==
    /\ pc[c] = "get"
    /\ LET req == GetRequest(config.Namespace, call[c].name)
       IN  \E resp \in Answers(c, {LookupResponse(backend, req)} \cup faults) :
               /\ Sent(c, req, resp)
               /\ ret' = [ret EXCEPT ![c] = GetResult(resp)]
    /\ pc' = [pc EXCEPT ![c] = "done"]
    /\ UNCHANGED <<config, backend, sfGroup, callobj, call, joined, otherVars>>

\* Store.Delete from DoRequest on.
DeleteStep(c, faults) ==
    /\ pc[c] = "delete"
    /\ LET req == DeleteRequest(config.Namespace, call[c].name)
       IN  \E resp \in Answers(c, {RemoveResponse(backend, req)} \cup faults) :
               /\ Sent(c, req, resp)
               /\ backend' = IF Applied(resp)
                             THEN [backend EXCEPT ![UriName(req)] = NoEntry]
                             ELSE backend
               /\ ret' = [ret EXCEPT ![c] = [val |-> <<>>, err |-> DeleteResult(resp)]]
    /\ pc' = [pc EXCEPT ![c] = "done"]
    /\ UNCHANGED <<config, sfGroup, callobj, call, joined, otherVars>>

\* Store.Status up to DoRequest.
StatusCall(c, s) ==
    /\ MayStart(c)
    /\ call' = [call EXCEPT ![c] =
                  [op |-> "Status", store |-> s, name |-> <<>>, value |-> <<>>]]
    /\ pc' = [pc EXCEPT ![c] = "status"]
    /\ UNCHANGED <<config, backend, sfGroup, callobj, joined, log, ret, otherVars>>

\* Store.Status from DoRequest on.
StatusStep(c, responses) ==
    /\ pc[c] = "status"
    /\ \E resp \in Answers(c, responses) :
           /\ Sent(c, StatusRequest, resp)
           /\ ret' = [ret EXCEPT ![c] = [val |-> <<>>, err |-> StatusResult(resp)]]
    /\ pc' = [pc EXCEPT ![c] = "done"]
    /\ UNCHANGED <<config, backend, sfGroup, callobj, call, joined, otherVars>>

(***************************************************************************)
(* Store.List and the iterator it returns.                                 *)
(***************************************************************************)
\* The most entries a listing has, and the most calls of Next on one
\* iterator.
MaxCreds == 2
MaxNexts == 4

\* pathPrefix of Store.List: s.config.Namespace + "/".
PathPrefix(ns) == ns \o <<"/">>

\* The request of Store.List.
ListRequest(ns) ==
    Request("GET", <<"/api/v1/data?path=">> \o PathPrefix(ns), NoPayload)

\* strings.TrimPrefix: s without the leading prefix, s itself when it does
\* not start with it.
TrimPrefix(s, prefix) ==
    IF HasPrefix(s, prefix) THEN SubSeq(s, Len(prefix) + 1, Len(s)) ELSE s

\* The body of a listing: the names of its credentials.
ListBody(names) ==
    [valid |-> TRUE, data |-> <<>>, status |-> "", credentials |-> names]

\* ListResult with the keys in the reverse of the response's order.
ListResultReversed(ns, resp) ==
    IF resp.err # NilErr THEN [iter |-> NoIter, err |-> resp.err]
    ELSE IF ~IsStatusCode2xx(resp)
    THEN [iter |-> NoIter,
          err |-> Err("failed to list entries", resp.Status, resp.Body)]
    ELSE IF ~resp.Body.valid
    THEN [iter |-> NoIter, err |-> Err("json decode", "", NoBody)]
    ELSE LET creds == resp.Body.credentials
         IN  [iter |-> [keys |-> [i \in 1..Len(creds) |->
                                    TrimPrefix(creds[Len(creds) + 1 - i],
                                               PathPrefix(ns))],
                        index |-> 0, open |-> TRUE],
              err |-> NilErr]

\* Store.List after DoRequest: the iterator and the error returned.
ListResult(ns, resp) ==
    IF resp.err # NilErr THEN [iter |-> NoIter, err |-> resp.err]
    ELSE IF ~IsStatusCode2xx(resp)
    THEN [iter |-> NoIter,
          err |-> Err("failed to list entries", resp.Status, resp.Body)]
    ELSE IF ~resp.Body.valid
    THEN [iter |-> NoIter, err |-> Err("json decode", "", NoBody)]
    ELSE LET creds == resp.Body.credentials
         IN  [iter |-> [keys |-> [i \in 1..Len(creds) |->
                                    TrimPrefix(creds[i], PathPrefix(ns))],
                        index |-> 0, open |-> TRUE],
              err |-> NilErr]

\* keysIter.Next with the bound check off by one: more is index <= len.
IterNextResultInclusive(it) ==
    LET key == IF it.index < Len(it.keys) THEN it.keys[it.index + 1] ELSE <<>>
        index == IF it.index < Len(it.keys) THEN it.index + 1 ELSE it.index
    IN  [key |-> key, more |-> index <= Len(it.keys),
         iter |-> [it EXCEPT !.index = index]]

\* keysIter.Next: the key and the flag returned, and the iterator after.
IterNextResult(it) ==
    LET key == IF it.index < Len(it.keys) THEN it.keys[it.index + 1] ELSE <<>>
        index == IF it.index < Len(it.keys) THEN it.index + 1 ELSE it.index
    IN  [key |-> key, more |-> index < Len(it.keys),
         iter |-> [it EXCEPT !.index = index]]

\* The names a listing may hold: the credentials of the namespace, and one
\* in a sub-path that repeats the namespace.
ListedNames ==
    CredNames \cup {CredName(Namespace, CredName(Namespace, <<"key-1">>))}

\* The answers to a listing.
ListResponses ==
    Faults
    \cup {Response(404, "404 Not Found", BadBody),
          Response(302, "302 Found", ListBody(<<>>)),
          Response(200, "200 OK", BadBody),
          Response(201, "201 Created",
                   ListBody(<<CredName(Namespace, <<"key-2">>)>>))}
    \cup {Response(200, "200 OK", ListBody(l)) :
             l \in SeqsUpTo(ListedNames, MaxCreds)}

\* Store.List up to DoRequest.
ListCall(c, s) ==
    /\ MayStart(c)
    /\ call' = [call EXCEPT ![c] =
                  [op |-> "List", store |-> s, name |-> <<>>, value |-> <<>>]]
    /\ pc' = [pc EXCEPT ![c] = "list"]
    /\ UNCHANGED <<config, backend, sfGroup, callobj, joined, log, ret, otherVars>>

\* Store.List from DoRequest on.
ListStep(c, responses) ==
    /\ pc[c] = "list"
    /\ \E resp \in Answers(c, responses) :
           /\ Sent(c, ListRequest(config.Namespace), resp)
           /\ LET r == ListResult(config.Namespace, resp)
              IN  /\ ret' = [ret EXCEPT ![c] = [val |-> <<>>, err |-> r.err]]
                  /\ iter' = [iter EXCEPT ![c] = r.iter]
    /\ pc' = [pc EXCEPT ![c] = "done"]
    /\ UNCHANGED <<config, backend, sfGroup, callobj, call, joined, yield,
                   cancelled, entries, closed>>

\* The caller calls Next on the iterator it holds.
IterNext(c) ==
    /\ iter[c].open
    /\ Len(yield[c]) < MaxNexts
    /\ LET r == IterNextResult(iter[c])
       IN  /\ iter' = [iter EXCEPT ![c] = r.iter]
           /\ yield' = [yield EXCEPT ![c] =
                          Append(@, [key |-> r.key, more |-> r.more])]
    /\ UNCHANGED <<config, backend, sfGroup, callobj, pc, call, joined, log,
                   ret, cancelled, entries, closed>>

(***************************************************************************)
(* Concurrent callers of one store instance.                               *)
(***************************************************************************)
Next ==
    \E c \in Callers :
        \/ \E s \in OneStore, n \in Names, v \in Values : CreateCall(c, s, n, v)
        \/ \E s \in OneStore, n \in Names, v \in Values : SetCall(c, s, n, v)
        \/ \E s \in OneStore, n \in Names : GetCall(c, s, n)
        \/ \E s \in OneStore, n \in Names : DeleteCall(c, s, n)
        \/ CreateGetStep(c, Faults)
        \/ PutStep(c, Faults)
        \/ DoFinish(c)
        \/ DoWait(c)
        \/ GetStep(c, Faults)
        \/ DeleteStep(c, Faults)

Spec == Init /\ [][Next]_vars

(***************************************************************************)
(* Calls made one after the other, against a backend that may answer with  *)
(* any response.                                                           *)
(***************************************************************************)
\* The number of calls of a sequential run.
SeqCalls == 1

\* The caller may act in a sequential run: it is one of the first SeqCalls,
\* and no other caller is inside a call.
Alone(c) ==
    /\ c <= SeqCalls
    /\ \A d \in Callers \ {c} : pc[d] \in {"idle", "done"}

NextSeq ==
    \E c \in Callers :
        \/ Alone(c) /\ \E n \in Names, v \in Values : CreateCall(c, "s1", n, v)
        \/ Alone(c) /\ \E n \in Names, v \in Values : SetCall(c, "s1", n, v)
        \/ Alone(c) /\ \E n \in Names : GetCall(c, "s1", n)
        \/ Alone(c) /\ \E n \in Names : DeleteCall(c, "s1", n)
        \/ Alone(c) /\ StatusCall(c, "s1")
        \/ Alone(c) /\ CreateGetStep(c, OtherResponses)
        \/ Alone(c) /\ PutStep(c, OtherWriteResponses)
        \/ Alone(c) /\ DoFinish(c)
        \/ Alone(c) /\ GetStep(c, OtherResponses)
        \/ Alone(c) /\ DeleteStep(c, OtherResponses)
        \/ Alone(c) /\ StatusStep(c, HealthResponses)
        \/ Alone(c) /\ ListCall(c, "s1")
        \/ Alone(c) /\ ListStep(c, ListResponses)

SpecSeq == Init /\ [][NextSeq]_vars

(***************************************************************************)
(* Listings, one after the other, and the iteration over their keys.       *)
(***************************************************************************)
NextList ==
    \E c \in Callers :
        \/ Alone(c) /\ ListCall(c, "s1")
        \/ Alone(c) /\ ListStep(c, ListResponses)
        \/ Alone(c) /\ IterNext(c)

SpecList == Init /\ [][NextList]_vars

(***************************************************************************)
(* A value written by Set and read back by Get: the way of a value through *)
(* the codec, the request, the backend and the response.                   *)
(***************************************************************************)
\* The longest value written, before the marker prefix is put in front.
MaxLen == 2

\* The bytes of the values written: 'a', 0xFF that no text holds, and the
\* two bytes of U+00E9, each of which alone is no text.
CodecBytes == {97, 255, 195, 169}

\* The values written: every sequence of these bytes up to MaxLen, as it is
\* and behind the text "Base64:".
CodecValues ==
    LET short == SeqsUpTo(CodecBytes, MaxLen)
    IN  short \cup {Base64Prefix \o v : v \in short}

NextCodec ==
    \/ \E v \in CodecValues : SetCall(1, "s1", <<"key-1">>, v)
    \/ PutStep(1, Faults)
    \/ DoFinish(1)
    \/ pc[1] = "done" /\ GetCall(2, "s1", <<"key-1">>)
    \/ GetStep(2, Faults)

SpecCodec == Init /\ [][NextCodec]_vars

(***************************************************************************)
(* Callers whose context is cancelled while their call is pending.         *)
(***************************************************************************)
\* The context of caller c is cancelled while its call waits: for the
\* response to its request, or in Do for the request of the call it joined,
\* which has not been answered yet.
Cancel(c) ==
    /\ c \notin cancelled
    /\ \/ pc[c] \in {"create-get", "put", "get", "delete"}
       \/ pc[c] = "wait" /\ pc[joined[c]] \in {"create-get", "put"}
    /\ cancelled' = cancelled \cup {c}
    /\ UNCHANGED <<config, backend, sfGroup, callobj, pc, call, joined, log,
                   ret, iter, yield, entries, closed>>

NextCancel ==
    \E c \in Callers :
        \/ \E v \in Values : CreateCall(c, "s1", <<"key-1">>, v)
        \/ \E v \in Values : SetCall(c, "s1", <<"key-1">>, v)
        \/ GetCall(c, "s1", <<"key-1">>)
        \/ DeleteCall(c, "s1", <<"key-1">>)
        \/ Cancel(c)
        \/ CreateGetStep(c, {})
        \/ PutStep(c, {})
        \/ DoFinish(c)
        \/ DoWait(c)
        \/ GetStep(c, {})
        \/ DeleteStep(c, {})

SpecCancel == Init /\ [][NextCancel]_vars

(***************************************************************************)
(* Two store instances on one backend, which may hold credentials before   *)
(* the first call.                                                         *)
(***************************************************************************)
\* The backends at the start: each credential is absent or holds "a".
HeldBackends == [CredNames -> {NoEntry, Entry(<<97>>)}]

InitHeld ==
    /\ InitCalls
    /\ backend \in HeldBackends
    /\ entries = TestEntries

NextStores ==
    \E c \in Callers :
        \/ \E s \in Stores, v \in Values : CreateCall(c, s, <<"key-1">>, v)
        \/ \E s \in Stores, v \in Values : SetCall(c, s, <<"key-1">>, v)
        \/ CreateGetStep(c, {})
        \/ PutStep(c, {})
        \/ DoFinish(c)
        \/ DoWait(c)

SpecStores == InitHeld /\ [][NextStores]_vars

(***************************************************************************)
(* Calls that do not overlap, on a backend that behaves as a map: every    *)
(* request is answered from what the backend holds.                        *)
(***************************************************************************)
\* No other caller is inside a call.
NoOverlap(c) == \A d \in Callers \ {c} : pc[d] \in {"idle", "done"}

NextMap ==
    \E c \in Callers :
        \/ NoOverlap(c) /\ \E n \in Names, v \in Values : CreateCall(c, "s1", n, v)
        \/ NoOverlap(c) /\ \E n \in Names, v \in Values : SetCall(c, "s1", n, v)
        \/ NoOverlap(c) /\ \E n \in Names : GetCall(c, "s1", n)
        \/ NoOverlap(c) /\ \E n \in Names : DeleteCall(c, "s1", n)
        \/ CreateGetStep(c, {})
        \/ PutStep(c, {})
        \/ DoFinish(c)
        \/ GetStep(c, {})
        \/ DeleteStep(c, {})

SpecMap == InitHeld /\ [][NextMap]_vars

(***************************************************************************)
(* An iterator in use while other callers write, and its Close: the first  *)
(* caller lists and iterates, the callers after it write and delete.       *)
(***************************************************************************)
\* The most calls of Close on one iterator.
MaxCloses == 1

\* The sequences that hold each element of K once.
ListOrders(K) ==
    {q \in [1..Cardinality(K) -> K] : \A k \in K : \E i \in DOMAIN q : q[i] = k}

\* The answers of a backend that behaves as a map to a listing: the names
\* it holds, in any order.
FindByPath(b) ==
    {Response(200, "200 OK", ListBody(q)) :
        q \in ListOrders({n \in CredNames : b[n].present})}

\* The context of caller c is cancelled after its List returned.
CancelIter(c) ==
    /\ c \notin cancelled
    /\ pc[c] = "done"
    /\ iter[c].open
    /\ cancelled' = cancelled \cup {c}
    /\ UNCHANGED <<config, backend, sfGroup, callobj, pc, call, joined, log,
                   ret, iter, yield, entries, closed>>

\* IterClose with the keys kept.
IterCloseKeepsKeys(c) ==
    /\ iter[c].open
    /\ Len(closed[c]) < MaxCloses
    /\ closed' = [closed EXCEPT ![c] =
                    Append(@, IF c \in cancelled THEN CtxErr ELSE NilErr)]
    /\ UNCHANGED <<config, backend, sfGroup, callobj, pc, call, joined, log,
                   ret, iter, yield, cancelled, entries>>

\* keysIter.Close: s.keys = nil, and the error of the context List was
\* called with is returned.
IterClose(c) ==
    /\ iter[c].open
    /\ Len(closed[c]) < MaxCloses
    /\ iter' = [iter EXCEPT ![c].keys = <<>>]
    /\ closed' = [closed EXCEPT ![c] =
                    Append(@, IF c \in cancelled THEN CtxErr ELSE NilErr)]
    /\ UNCHANGED <<config, backend, sfGroup, callobj, pc, call, joined, log,
                   ret, yield, cancelled, entries>>

NextIter ==
    \E c \in Callers :
        \/ c = 1 /\ ListCall(c, "s1")
        \/ ListStep(c, FindByPath(backend))
        \/ IterNext(c)
        \/ CancelIter(c)
        \/ IterClose(c)
        \/ NoOverlap(c) /\ \E n \in Names : CreateCall(c, "s1", n, <<97>>)
        \/ NoOverlap(c) /\ \E n \in Names : SetCall(c, "s1", n, <<97>>)
        \/ NoOverlap(c) /\ \E n \in Names : DeleteCall(c, "s1", n)
        \/ CreateGetStep(c, {})
        \/ PutStep(c, {})
        \/ DoFinish(c)
        \/ DeleteStep(c, {})

SpecIter == InitHeld /\ [][NextIter]_vars

(***************************************************************************)
(* The static store (internal/keystore/staticlist): a fixed map of         *)
(* entries that no operation changes.                                      *)
(***************************************************************************)
\* The keys callers use with the static store, and the entries a store may
\* be configured with: any of these keys, each with its value.
StaticKeys == {<<"key1">>, <<"key2">>, <<"key3">>}
AllEntries == TestEntries @@ (<<"key3">> :> <<118, 97, 108, 117, 101, 51>>)
StaticConfigs ==
    {[k \in K |-> AllEntries[k]] : K \in SUBSET StaticKeys}

\* fmt.Errorf("...: %w", sentinel): an error that is the sentinel, under
\* the text put before it.
Wrap(text, sentinel) == Err(sentinel, text, NoBody)

\* StaticCreateResult with the check for the key lost.
StaticCreateResultNotAllowed(e, name) ==
    Wrap("create operation is not allowed", "kes.ErrNotAllowed")

\* Store.Create of the static store: the error returned.
StaticCreateResult(e, name) ==
    IF name \in DOMAIN e
    THEN Wrap("already exists", "kes.ErrKeyExists")
    ELSE Wrap("create operation is not allowed", "kes.ErrNotAllowed")

\* Store.Set of the static store.
StaticSetResult(e, name) ==
    Wrap("set operation is not allowed", "kes.ErrNotAllowed")

\* Store.Get of the static store: the value and the error returned.
StaticGetResult(e, name) ==
    IF name \notin DOMAIN e
    THEN [val |-> <<>>, err |-> Err("kes.ErrKeyNotFound", "", NoBody)]
    ELSE [val |-> e[name], err |-> NilErr]

\* Store.Delete of the static store.
StaticDeleteResult(e, name) ==
    IF name \notin DOMAIN e
    THEN Wrap("doesn't exist", "kes.ErrKeyNotFound")
    ELSE Wrap("delete operation is not allowed", "kes.ErrNotAllowed")

\* The orders in which `for k := range` may go through the keys of a map:
\* the language fixes none, so every order of the keys.
RangeOrders(K) ==
    {q \in [1..Cardinality(K) -> K] : \A k \in K : \E i \in DOMAIN q : q[i] = k}

\* A call of the static store that returns r: it reads the entries only.
StaticReturns(c, op, name, value, r) ==
    /\ MayStart(c)
    /\ call' = [call EXCEPT ![c] =
                  [op |-> op, store |-> "static", name |-> name, value |-> value]]
    /\ ret' = [ret EXCEPT ![c] = r]
    /\ pc' = [pc EXCEPT ![c] = "done"]

StaticCreate(c, name, value) ==
    /\ StaticReturns(c, "Create", name, value,
                     [val |-> <<>>, err |-> StaticCreateResult(entries, name)])
    /\ UNCHANGED <<config, backend, sfGroup, callobj, joined, log, otherVars>>

\* StaticSet that writes the value into the entries and returns nil.
StaticSetWrites(c, name, value) ==
    /\ StaticReturns(c, "Set", name, value, NoRet)
    /\ entries' = [k \in DOMAIN entries \cup {name} |->
                     IF k = name THEN value ELSE entries[k]]
    /\ UNCHANGED <<config, backend, sfGroup, callobj, joined, log, iter, yield,
                   cancelled, closed>>

StaticSet(c, name, value) ==
    /\ StaticReturns(c, "Set", name, value,
                     [val |-> <<>>, err |-> StaticSetResult(entries, name)])
    /\ UNCHANGED <<config, backend, sfGroup, callobj, joined, log, otherVars>>

StaticGet(c, name) ==
    /\ StaticReturns(c, "Get", name, <<>>, StaticGetResult(entries, name))
    /\ UNCHANGED <<config, backend, sfGroup, callobj, joined, log, otherVars>>

StaticDelete(c, name) ==
    /\ StaticReturns(c, "Delete", name, <<>>,
                     [val |-> <<>>, err |-> StaticDeleteResult(entries, name)])
    /\ UNCHANGED <<config, backend, sfGroup, callobj, joined, log, otherVars>>

\* Store.List of the static store: the keys in the order the range over
\* the map went through them.
StaticList(c) ==
    /\ StaticReturns(c, "List", <<>>, <<>>, NoRet)
    /\ \E keys \in RangeOrders(DOMAIN entries) :
           iter' = [iter EXCEPT ![c] = [keys |-> keys, index |-> 0, open |-> TRUE]]
    /\ UNCHANGED <<config, backend, sfGroup, callobj, joined, log, yield,
                   cancelled, entries, closed>>

\* Store.Status of the static store: no error.
StaticStatus(c) ==
    /\ StaticReturns(c, "Status", <<>>, <<>>, NoRet)
    /\ UNCHANGED <<config, backend, sfGroup, callobj, joined, log, otherVars>>

\* Store.Close of the static store: no error.
StaticClose(c) ==
    /\ StaticReturns(c, "Close", <<>>, <<>>, NoRet)
    /\ UNCHANGED <<config, backend, sfGroup, callobj, joined, log, otherVars>>

InitStatic ==
    /\ InitStore
    /\ entries \in StaticConfigs

NextStatic ==
    \E c \in Callers :
        \/ Alone(c) /\ \E k \in StaticKeys, v \in Values : StaticCreate(c, k, v)
        \/ Alone(c) /\ \E k \in StaticKeys, v \in Values : StaticSet(c, k, v)
        \/ Alone(c) /\ \E k \in StaticKeys : StaticGet(c, k)
        \/ Alone(c) /\ \E k \in StaticKeys : StaticDelete(c, k)
        \/ Alone(c) /\ StaticList(c)
        \/ Alone(c) /\ IterNext(c)

SpecStatic == InitStatic /\ [][NextStatic]_vars

\* Every operation of the static store, called by one caller after the
\* other.
NextStaticCalls ==
    \E c \in Callers :
        \/ \E k \in StaticKeys, v \in Values : StaticCreate(c, k, v)
        \/ \E k \in StaticKeys, v \in Values : StaticSet(c, k, v)
        \/ \E k \in StaticKeys : StaticGet(c, k)
        \/ \E k \in StaticKeys : StaticDelete(c, k)
        \/ StaticList(c)
        \/ StaticStatus(c)
        \/ StaticClose(c)

SpecStaticCalls == InitStatic /\ [][NextStaticCalls]_vars

(***************************************************************************)
(* The claims.                                                             *)
(***************************************************************************)
\* The caller's i-th request and its response.
Req(c, i) == log[c][i].req
Resp(c, i) == log[c][i].resp

IsPut(e) == e.req.method = "PUT"
PutCount(c) == Cardinality({i \in 1..Len(log[c]) : IsPut(log[c][i])})

\* The caller is a Create whose own Get has been answered with a value.
CreateGotValue(c) ==
    /\ call[c].op = "Create"
    /\ Len(log[c]) >= 1
    /\ Resp(c, 1).err = NilErr
    /\ IsStatusCode2xx(Resp(c, 1))
    /\ Resp(c, 1).Body.valid
    /\ Len(Resp(c, 1).Body.data) = 1
    /\ JsonStringToBytes(Resp(c, 1).Body.data[1]).ok

C1_State ==
    \A c \in Callers :
        CreateGotValue(c) =>
            /\ Len(log[c]) = 1
            /\ Req(c, 1) = GetRequest(config.Namespace, call[c].name)
            /\ pc[c] \in {"fin", "done"}
            /\ callobj[c] = [done |-> TRUE, err |-> ErrExists]
            /\ (pc[c] = "done" => ret[c].err = ErrExists)

C1_Step ==
    \A c \in Callers :
        (pc[c] = "create-get" /\ CreateGotValue(c)') => backend' = backend

\* C1: a Create whose Get returns a value returns kv.ErrExists, sends no PUT
\* (its GET is the only request it ever sends), and the step in which its Get
\* is answered leaves every value stored at the backend unchanged.
C1_CreateOnExistingKey == []C1_State /\ [][C1_Step]_vars

\* A Create returned kv.ErrExists for a key the backend holds a value for.
C1_Witness ==
    \E c \in Callers :
        /\ CreateGotValue(c)
        /\ pc[c] = "done"
        /\ ret[c].err = ErrExists
        /\ backend[CredName(Namespace, call[c].name)].present

\* The Get of the caller's Create was answered not-found: 404, or a 2xx with
\* an empty version list.
CreateGotNotFound(c) ==
    /\ call[c].op = "Create"
    /\ Len(log[c]) >= 1
    /\ Resp(c, 1).err = NilErr
    /\ \/ Resp(c, 1).StatusCode = 404
       \/ /\ IsStatusCode2xx(Resp(c, 1))
          /\ Resp(c, 1).Body.valid
          /\ Len(Resp(c, 1).Body.data) = 0

\* C2: a Create run alone whose Get is answered not-found sends the GET and
\* then exactly one PUT, to /api/v1/data with the name namespace/key and the
\* encoded value, and returns nil when the PUT is answered 2xx and an error
\* when it is not.
C2_CreateOnAbsentKey ==
    \A c \in Callers :
        (CreateGotNotFound(c) /\ pc[c] = "done") =>
            /\ Len(log[c]) = 2
            /\ Req(c, 1) =
                 [method |-> "GET",
                  uri |-> <<"/api/v1/data?current=true&name=">>
                            \o Namespace \o <<"/">> \o call[c].name,
                  payload |-> NoPayload]
            /\ Req(c, 2) =
                 [method |-> "PUT",
                  uri |-> <<"/api/v1/data">>,
                  payload |->
                    [name |-> Namespace \o <<"/">> \o call[c].name,
                     type |-> "value",
                     value |-> BytesToJsonString(call[c].value,
                                 config.ForceBase64ValuesEncoding)]]
            /\ (ret[c].err = NilErr) <=>
                 (Resp(c, 2).err = NilErr /\ Resp(c, 2).StatusCode >= 200
                                          /\ Resp(c, 2).StatusCode <= 299)
            /\ Resp(c, 2).err # NilErr => ret[c].err = Resp(c, 2).err
            /\ (Resp(c, 2).err = NilErr /\ ret[c].err # NilErr) =>
                 ret[c].err = [kind |-> "failed to set entry",
                               status |-> Resp(c, 2).Status,
                               body |-> Resp(c, 2).Body]

\* A Create that found its key absent, wrote it and returned nil.
C2_Witness ==
    \E c \in Callers :
        /\ CreateGotNotFound(c)
        /\ pc[c] = "done"
        /\ Len(log[c]) = 2
        /\ ret[c].err = NilErr
        /\ backend[CredName(Namespace, call[c].name)] =
             Entry(BytesToJsonString(call[c].value,
                                     config.ForceBase64ValuesEncoding))

\* The caller is running the function it passed to Do.
Executing(c) == pc[c] \in {"create-get", "put"}

\* Some response of some caller is a failure of the network or the server.
FaultSeen ==
    \E c \in Callers : \E i \in 1..Len(log[c]) : Resp(c, i) \in Faults

\* C3: when every caller issues Create for one key of one store, the key is
\* absent at first and no request fails, exactly one PUT reaches the backend,
\* exactly one call returns nil and every other call returns kv.ErrExists;
\* when the calls all overlap and the PUT fails, all return the same error.
C3_AtomicCreate ==
    \A n \in Names :
        ((\A c \in Callers :
             pc[c] = "done" /\ call[c].op = "Create" /\ call[c].name = n
                            /\ call[c].store = "s1")
         /\ NumCallers >= 2) =>
            /\ ~FaultSeen =>
                 /\ Cardinality({c \in Callers : PutCount(c) = 1}) = 1
                 /\ Cardinality({c \in Callers : ret[c].err = NilErr}) = 1
                 /\ \A c \in Callers : ret[c].err \in {NilErr, ErrExists}
            /\ ((\A c \in Callers \ {1} : joined[c] = 1)
                /\ ret[1].err # NilErr) =>
                 \A c \in Callers : ret[c].err = ret[1].err

\* The caller and the call it joined are for one store and one dedup key.
SameFlight(c, d) ==
    /\ call[c].op \in {"Create", "Set"}
    /\ call[d].op \in {"Create", "Set"}
    /\ call[c].store = call[d].store
    /\ Namespace \o <<"/">> \o call[c].name = Namespace \o <<"/">> \o call[d].name

C4_State ==
    /\ \A c \in Callers :
           joined[c] # 0 =>
               /\ joined[c] # c
               /\ SameFlight(c, joined[c])
               /\ log[c] = <<>>
               /\ pc[c] \in {"wait", "done"}
               /\ pc[c] = "done" =>
                    /\ callobj[joined[c]].done
                    /\ ret[c].err = callobj[joined[c]].err
                    /\ pc[joined[c]] = "done" => ret[c].err = ret[joined[c]].err
    /\ \A c, d \in Callers :
           (c # d /\ Executing(c) /\ Executing(d)) => ~SameFlight(c, d)

C4_Step ==
    \A c, d \in Callers :
        (/\ pc[c] = "idle"
         /\ pc'[c] # "idle"
         /\ Executing(d)
         /\ SameFlight(c, d)') =>
            /\ pc'[c] = "wait"
            /\ joined'[c] = d
            /\ log'[c] = <<>>

\* C4: a Create or Set that arrives while an execution for its dedup key is
\* in flight on its store runs no unit of work of its own (it sends no
\* request), waits for that execution to complete and returns exactly its
\* error; two executions for one dedup key of one store never overlap.
C4_DedupSharesOneExecution == []C4_State /\ [][C4_Step]_vars

\* A caller joined a call in flight and returned its error, here an error
\* of the PUT of that call.
C4_Witness ==
    \E c \in Callers :
        /\ joined[c] # 0
        /\ pc[c] = "done"
        /\ pc[joined[c]] = "done"
        /\ PutCount(joined[c]) = 1
        /\ ret[c].err # NilErr
        /\ ret[c].err = ret[joined[c]].err

\* C5: every Set sends its own PUT to /api/v1/data with its own name and its
\* own encoded value, whatever else is in flight, never waits for another
\* call, and returns nil exactly when its own PUT is answered 2xx.
C5_SetAlwaysPuts ==
    \A c \in Callers :
        call[c].op = "Set" =>
            /\ pc[c] # "wait"
            /\ joined[c] = 0
            /\ pc[c] = "done" =>
                 /\ Len(log[c]) = 1
                 /\ Req(c, 1) =
                      [method |-> "PUT",
                       uri |-> <<"/api/v1/data">>,
                       payload |->
                         [name |-> Namespace \o <<"/">> \o call[c].name,
                          type |-> "value",
                          value |-> BytesToJsonString(call[c].value,
                                      config.ForceBase64ValuesEncoding)]]
                 /\ (ret[c].err = NilErr) <=>
                      (Resp(c, 1).err = NilErr /\ IsStatusCode2xx(Resp(c, 1)))

\* A Create for the same name and store as the caller's call is pending.
CreatePending(c) ==
    \E d \in Callers \ {c} :
        /\ call[d].op = "Create"
        /\ call[d].name = call[c].name
        /\ call[d].store = call[c].store
        /\ pc[d] \in {"create-get", "put", "fin", "wait"}

\* C6: a Set, Delete or Get for a key with a pending Create on the same
\* store does not wait for that Create: it is never found waiting, and once
\* it returned it has sent its own request and returned that request's
\* result.
C6_NotSerializedAgainstCreate ==
    \A c \in Callers :
        call[c].op \in {"Set", "Get", "Delete"} =>
            /\ (CreatePending(c) => pc[c] # "wait")
            /\ pc[c] = "done" =>
                 /\ Len(log[c]) = 1
                 /\ call[c].op = "Set" => ret[c].err = PutResult(Resp(c, 1))
                 /\ call[c].op = "Get" => ret[c] = GetResult(Resp(c, 1))
                 /\ call[c].op = "Delete" => ret[c].err = DeleteResult(Resp(c, 1))

C7_State ==
    \A c \in Callers :
        joined[c] # 0 =>
            /\ call[c].name = call[joined[c]].name
            /\ call[c].store = call[joined[c]].store

C7_Step ==
    \A c \in Callers :
        (/\ pc[c] = "idle"
         /\ call'[c].op \in {"Create", "Set"}
         /\ \A d \in Callers \ {c} :
                (call[d].op \in {"Create", "Set"} /\ pc[d] \in {"create-get", "put", "fin"})
                    => call[d].name # call'[c].name) =>
            /\ Executing(c)'
            /\ joined'[c] = 0

\* C7: a Create or Set never waits for, nor returns the result of, a call
\* for another key: a caller only ever joins a call for its own key, and a
\* Create or Set invoked while the only calls in flight are for other keys
\* starts its own execution at once.
C7_KeysIndependent == []C7_State /\ [][C7_Step]_vars

\* Two callers run their functions at the same time, for different keys.
C7_Witness ==
    \E c, d \in Callers :
        /\ c # d
        /\ Executing(c)
        /\ Executing(d)
        /\ call[c].name # call[d].name
        /\ call[c].store = call[d].store

\* The response has a 2xx status and a body that decodes.
Decoded2xx(r) ==
    /\ r.err = NilErr
    /\ r.StatusCode >= 200
    /\ r.StatusCode <= 299
    /\ r.Body.valid

\* The version strings of the model that stand for a value: "a" is itself,
\* "Base64:YQ==" is "a" and "Base64:/w==" is the byte 0xFF; the one other
\* version string, "Base64:!", is no value.
PlainA == <<97>>
Base64A == <<66, 97, 115, 101, 54, 52, 58, 89, 81, 61, 61>>
Base64FF == <<66, 97, 115, 101, 54, 52, 58, 47, 119, 61, 61>>

\* C8: a Get answered 2xx with a body that decodes returns kv.ErrNotExists
\* for zero versions; for one version the value that version decodes to (an
\* error that is neither nil nor kv.ErrNotExists when it does not decode);
\* for more than one version an error that is not kv.ErrNotExists, and no
\* value.
C8_GetByVersionCount ==
    \A c \in Callers :
        (call[c].op = "Get" /\ pc[c] = "done" /\ Decoded2xx(Resp(c, 1))) =>
            LET data == Resp(c, 1).Body.data
            IN  /\ Len(data) = 0 => ret[c] = [val |-> <<>>, err |-> ErrNotExists]
                /\ Len(data) = 1 =>
                     /\ data[1] = PlainA => ret[c] = [val |-> <<97>>, err |-> NilErr]
                     /\ data[1] = Base64A => ret[c] = [val |-> <<97>>, err |-> NilErr]
                     /\ data[1] = Base64FF => ret[c] = [val |-> <<255>>, err |-> NilErr]
                     /\ data[1] \notin {PlainA, Base64A, Base64FF} =>
                          /\ ret[c].val = <<>>
                          /\ ret[c].err \notin {NilErr, ErrExists, ErrNotExists}
                /\ Len(data) > 1 =>
                     /\ ret[c].val = <<>>
                     /\ ret[c].err \notin {NilErr, ErrExists, ErrNotExists}

\* A Get was answered with two versions, the first of them a good value,
\* and returned an error.
C8_Witness ==
    \E c \in Callers :
        /\ call[c].op = "Get"
        /\ pc[c] = "done"
        /\ Decoded2xx(Resp(c, 1))
        /\ Len(Resp(c, 1).Body.data) = 2
        /\ Resp(c, 1).Body.data[1] = Base64FF
        /\ ret[c].err.kind = "received multiple entries"

\* C9: a Get or Delete answered 404 returns kv.ErrNotExists; answered with
\* another status outside 2xx it returns an error that is not
\* kv.ErrNotExists and carries the status text and the body of the response;
\* a Delete answered 2xx returns nil.
C9_NotFoundAndRemoteErrors ==
    \A c \in Callers :
        (call[c].op \in {"Get", "Delete"} /\ pc[c] = "done"
                                          /\ Resp(c, 1).err = NilErr) =>
            LET r == Resp(c, 1)
                is2xx == r.StatusCode >= 200 /\ r.StatusCode <= 299
            IN  /\ r.StatusCode = 404 => ret[c].err = ErrNotExists
                /\ (r.StatusCode # 404 /\ ~is2xx) =>
                     /\ ret[c].err.kind =
                          (IF call[c].op = "Get" THEN "failed to get entry"
                           ELSE "failed to delete entry")
                     /\ ret[c].err.status = r.Status
                     /\ ret[c].err.body = r.Body
                     /\ ret[c].val = <<>>
                /\ (call[c].op = "Delete" /\ is2xx) => ret[c].err = NilErr

\* A Delete was answered 404 and returned kv.ErrNotExists.
C9_Witness ==
    \E c \in Callers :
        /\ call[c].op = "Delete"
        /\ pc[c] = "done"
        /\ Resp(c, 1).err = NilErr
        /\ Resp(c, 1).StatusCode = 404
        /\ ret[c].err = ErrNotExists

\* C10: Status returns nil exactly when the request had no transport error,
\* the status is 2xx, the body decodes and its status field is "UP".
C10_StatusUp ==
    \A c \in Callers :
        (call[c].op = "Status" /\ pc[c] = "done") =>
            /\ Len(log[c]) = 1
            /\ Req(c, 1) = [method |-> "GET", uri |-> <<"/health">>,
                            payload |-> NoPayload]
            /\ (ret[c].err = NilErr) <=>
                 (Decoded2xx(Resp(c, 1)) /\ Resp(c, 1).Body.status = "UP")

\* A Status call returned an error for a 200 answer that is not "UP".
C10_Witness ==
    \E c \in Callers :
        /\ call[c].op = "Status"
        /\ pc[c] = "done"
        /\ Resp(c, 1).StatusCode = 200
        /\ Resp(c, 1).Body.valid
        /\ Resp(c, 1).Body.status = "DOWN"
        /\ ret[c].err.kind = "CredHub is not UP"

\* The response to the List call of caller c.
Listed(c) == Resp(c, 1)

\* Caller c listed, and the answer was 2xx with a body that decodes.
ListedOk(c) ==
    /\ call[c].op = "List"
    /\ pc[c] = "done"
    /\ Listed(c).err = NilErr
    /\ Listed(c).StatusCode \in 200..299
    /\ Listed(c).Body.valid

\* A listed name without "test-namespace/" in front.
Unprefixed(name) ==
    IF Len(name) >= 2 /\ name[1] = "test-namespace" /\ name[2] = "/"
    THEN SubSeq(name, 3, Len(name))
    ELSE name

\* C11: after a List that was answered 2xx, the iterator holds one key for
\* each credential name of the response, in the order of the response, each
\* the name without the prefix namespace + "/"; the key that the i-th call
\* of Next yields is the i-th name of the response without that prefix.
C11_ListYieldsNamesInOrder ==
    \A c \in Callers :
        ListedOk(c) =>
            LET names == Listed(c).Body.credentials
            IN  /\ ret[c].err = NilErr
                /\ iter[c].open
                /\ Len(iter[c].keys) = Len(names)
                /\ \A i \in 1..Len(names) :
                       iter[c].keys[i] = Unprefixed(names[i])
                /\ \A i \in 1..Len(yield[c]) :
                       i <= Len(names) => yield[c][i].key = Unprefixed(names[i])

\* Witness of C11: a listing of key-2, then the nested name, was iterated to
\* its end.
C11_Witness ==
    \E c \in Callers :
        /\ ListedOk(c)
        /\ Listed(c).Body.credentials =
               <<<<"test-namespace", "/", "key-2">>,
                 <<"test-namespace", "/", "test-namespace", "/", "key-1">>>>
        /\ Len(yield[c]) = 2
        /\ yield[c][1].key = <<"key-2">>
        /\ yield[c][2].key = <<"test-namespace", "/", "key-1">>

\* C12: over an iterator of n keys the i-th call of Next returns the i-th
\* key, with more = TRUE when i < n and FALSE when i = n; every call after
\* the n-th returns the empty key and FALSE; with n = 0 so does the first.
C12_NextSequence ==
    \A c \in Callers :
        iter[c].open =>
            LET n == Len(iter[c].keys)
            IN  \A i \in 1..Len(yield[c]) :
                    IF i <= n
                    THEN yield[c][i] = [key |-> iter[c].keys[i], more |-> i < n]
                    ELSE yield[c][i] = [key |-> <<>>, more |-> FALSE]

\* Witness of C12: two keys, and two calls of Next after the second.
C12_Witness ==
    \E c \in Callers :
        /\ iter[c].open
        /\ Len(iter[c].keys) = 2
        /\ Len(yield[c]) = 4
        /\ yield[c][2].more = FALSE
        /\ yield[c][4] = [key |-> <<>>, more |-> FALSE]

\* Caller c wrote with Set and the backend took the write.
Wrote(c) ==
    /\ call[c].op = "Set"
    /\ Len(log[c]) = 1
    /\ Applied(Resp(c, 1))

\* Caller g read with Get and the backend answered with what it holds.
ReadBack(g) ==
    /\ call[g].op = "Get"
    /\ pc[g] = "done"
    /\ Resp(g, 1).err = NilErr
    /\ Resp(g, 1).StatusCode = 200

\* The bytes are text: of the bytes written, 0xFF is in no text, 0xC3 is
\* followed by 0xA9, and 0xA9 follows 0xC3.
IsText(v) ==
    \A i \in 1..Len(v) :
        /\ v[i] # 255
        /\ v[i] = 195 => (i < Len(v) /\ v[i + 1] = 169)
        /\ v[i] = 169 => (i > 1 /\ v[i - 1] = 195)

\* "Base64:" as the bytes of its characters.
Marker == <<66, 97, 115, 101, 54, 52, 58>>

\* C13: whatever the value and whether the encoding is forced or not, the
\* string put sends for the value decodes to the value; and a Get that is
\* answered with the string the backend took from the put returns the
\* value, with no error.
C13_RoundTrip ==
    \A c \in Callers :
        Wrote(c) =>
            /\ JsonStringToBytes(Req(c, 1).payload.value)
                   = [ok |-> TRUE, bytes |-> call[c].value]
            /\ \A g \in Callers :
                   ReadBack(g) => ret[g] = [val |-> call[c].value, err |-> NilErr]

\* Witness of C13: the text "Base64:a", written unforced, was read back.
C13_Witness ==
    \E c, g \in Callers :
        /\ Wrote(c)
        /\ ReadBack(g)
        /\ ~config.ForceBase64ValuesEncoding
        /\ call[c].value = Marker \o <<97>>
        /\ ret[g].val = Marker \o <<97>>

\* C14: the string put sends for a value is "Base64:" and the base64 of the
\* value exactly when the encoding is forced, or the value is no text, or
\* its text starts with "Base64:"; else it is the value itself.  So a
\* string sent starts with "Base64:" only when the rest is the base64 of
\* the value.
C14_EncodingPolicy ==
    \A c \in Callers :
        \A i \in 1..Len(log[c]) :
            IsPut(log[c][i]) =>
                LET v == call[c].value
                    str == log[c][i].req.payload.value
                    binary == \/ config.ForceBase64ValuesEncoding
                              \/ ~IsText(v)
                              \/ (Len(v) >= 7 /\ SubSeq(v, 1, 7) = Marker)
                IN  /\ binary => str = Marker \o B64Encode(v)
                    /\ ~binary => str = v
                    /\ (Len(str) >= 7 /\ SubSeq(str, 1, 7) = Marker)
                           => SubSeq(str, 8, Len(str)) = B64Encode(v)
                    /\ v = <<255>> => str = Marker \o <<47, 119, 61, 61>>
                    /\ (v = <<97>> /\ config.ForceBase64ValuesEncoding)
                           => str = Marker \o <<89, 81, 61, 61>>

\* Witness of C14: the text "Base64:" was sent unforced, in base64 behind
\* the marker.
C14_Witness ==
    \E c \in Callers :
        /\ Len(log[c]) >= 1
        /\ IsPut(log[c][1])
        /\ ~config.ForceBase64ValuesEncoding
        /\ call[c].value = Marker
        /\ Req(c, 1).payload.value = Marker \o B64Encode(Marker)

\* Caller c called op of the static store, and the call returned.
StaticDone(c, op) ==
    /\ call[c].store = "static"
    /\ call[c].op = op
    /\ pc[c] = "done"

C16_StaticListOrder ==
    \A c \in Callers :
        StaticDone(c, "List") =>
            /\ entries = TestEntries => iter[c].keys = <<<<"key1">>, <<"key2">>>>
            /\ \A d \in Callers :
                   StaticDone(d, "List") => iter[d].keys = iter[c].keys

\* The answer says that the credential does not exist: 404, or a 2xx list
\* of no version.
NotFoundAnswer(resp) ==
    /\ resp.err = NilErr
    /\ \/ resp.StatusCode = 404
       \/ /\ resp.StatusCode \in 200..299
          /\ resp.Body.valid
          /\ Len(resp.Body.data) = 0

\* The kind of error Get makes of an answer that is neither a value nor
\* not-found; "none" for the other answers.
GetFailure(resp) ==
    IF resp.err # NilErr THEN "transport"
    ELSE IF resp.StatusCode = 404 THEN "none"
    ELSE IF resp.StatusCode \notin 200..299 THEN "failed to get entry"
    ELSE IF ~resp.Body.valid THEN "json decode"
    ELSE IF Len(resp.Body.data) > 1 THEN "received multiple entries"
    ELSE IF resp.Body.data = <<<<66, 97, 115, 101, 54, 52, 58, 33>>>>
    THEN "base64 decode"
    ELSE "none"

\* C17: a Create of the remote store sends a PUT only as its second
\* request, after a Get that was answered not-found; a Create whose Get
\* failed in any other way has returned the error of that Get and has sent
\* no PUT.
C17_CreatePutsOnlyAfterNotFound ==
    \A c \in Callers :
        (call[c].op = "Create" /\ call[c].store = "s1" /\ Len(log[c]) >= 1) =>
            /\ Req(c, 1).method = "GET"
            /\ \A i \in 1..Len(log[c]) :
                   IsPut(log[c][i]) => (i = 2 /\ NotFoundAnswer(Resp(c, 1)))
            /\ (pc[c] = "done" /\ GetFailure(Resp(c, 1)) # "none") =>
                   /\ PutCount(c) = 0
                   /\ ret[c].err.kind = GetFailure(Resp(c, 1))
                   /\ ret[c].err = GetResult(Resp(c, 1)).err

\* Witness of C17: a Create whose Get was answered with two versions has
\* returned the error about multiple entries.
C17_Witness ==
    \E c \in Callers :
        /\ call[c].op = "Create"
        /\ call[c].store = "s1"
        /\ pc[c] = "done"
        /\ Len(log[c]) = 1
        /\ Resp(c, 1).StatusCode = 200
        /\ Len(Resp(c, 1).Body.data) = 2
        /\ ret[c].err.kind = "received multiple entries"

\* The exit path an operation took on a response.
ExitPath(resp) ==
    IF resp.err # NilErr THEN "transport error"
    ELSE IF resp.StatusCode \notin 200..299 THEN "status"
    ELSE IF ~resp.Body.valid THEN "body decode failure"
    ELSE "decoded"

\* C18: every response that Status, put, Get, Delete or List obtained is
\* released exactly once by the time the operation has interpreted it,
\* whatever the exit path: no caller holds a response that is unreleased or
\* released twice, while it is in a later step or after its call returned.
C18_ResponsesReleasedOnce ==
    \A c \in Callers :
        \A i \in 1..Len(log[c]) : log[c][i].released = 1

\* Witness of C18: a Get returned on a value that is no base64, a List on a
\* body that does not decode, or a put on a transport error.
C18_Witness ==
    \E c \in Callers :
        /\ pc[c] = "done"
        /\ Len(log[c]) >= 1
        /\ \/ call[c].op = "Get" /\ ret[c].err.kind = "base64 decode"
           \/ call[c].op = "List" /\ ExitPath(Resp(c, 1)) = "body decode failure"
           \/ /\ call[c].op = "Set"
              /\ ExitPath(Resp(c, 1)) = "transport error"
        /\ log[c][Len(log[c])].released = 1

\* C19: a caller whose context was cancelled while its call was waiting has
\* its wait aborted and receives an error: no such call returns nil,
\* whichever operation it is and whether or not it overlaps with a Create
\* or a Set of the same key.
C19_CancelledCallerGetsError ==
    \A c \in cancelled : pc[c] = "done" => ret[c].err # NilErr

\* Caller c runs the execution for key k of store s: it registered its call
\* under k and has not yet returned from Do.
Runs(c, s, k) ==
    /\ call[c].op \in {"Create", "Set"}
    /\ call[c].store = s
    /\ <<"test-namespace", "/">> \o call[c].name = k
    /\ joined[c] = 0
    /\ pc[c] \in {"create-get", "put", "fin"}

\* Some call of Create or Set for key k of store s has not returned.
InProgress(s, k) ==
    \E d \in Callers :
        /\ call[d].op \in {"Create", "Set"}
        /\ call[d].store = s
        /\ <<"test-namespace", "/">> \o call[d].name = k
        /\ pc[d] \notin {"idle", "done"}

C20_State ==
    /\ \A s \in Stores : \A k \in CredNames :
           /\ \A c \in Callers : sfGroup[s][k] = c <=> Runs(c, s, k)
           /\ sfGroup[s][k] \in Callers \cup {0}
    /\ (\A c \in Callers : pc[c] \in {"idle", "done"}) =>
           \A s \in Stores : \A k \in CredNames : sfGroup[s][k] = 0

C20_Step ==
    \A c \in Callers :
        (/\ pc[c] = "idle"
         /\ pc'[c] # "idle"
         /\ call'[c].op \in {"Create", "Set"}
         /\ ~InProgress(call'[c].store, <<"test-namespace", "/">> \o call'[c].name)) =>
            /\ pc'[c] \in {"create-get", "put"}
            /\ joined'[c] = 0
            /\ sfGroup'[call'[c].store][<<"test-namespace", "/">> \o call'[c].name] = c

CreatedFresh(c) ==
    /\ call[c].op = "Create"
    /\ pc[c] = "done"
    /\ Len(log[c]) = 2
    /\ Resp(c, 1).StatusCode = 404
    /\ IsPut(log[c][2])
    /\ Resp(c, 2).StatusCode = 200
    /\ ret[c].err = NilErr

C21_State ==
    \A c \in Callers :
        joined[c] # 0 => call[c].store = call[joined[c]].store

C21_Step ==
    \A c \in Callers :
        (/\ pc[c] = "idle"
         /\ pc'[c] # "idle"
         /\ call'[c].op = "Create"
         /\ \A d \in Callers \ {c} :
                call[d].store = call'[c].store => pc[d] \in {"idle", "done"}) =>
            /\ pc'[c] = "create-get"
            /\ joined'[c] = 0

\* C21: the group of one store instance does not hold back the calls of
\* another: no caller ever joins a call made through another store, and a
\* Create that starts while its own store has no call in progress runs its
\* own Get, whatever is in flight on the other store for the same key.  So
\* the interleaving of C21_Witness is reached.
C21_StoresNotDeduplicated == []C21_State /\ [][C21_Step]_vars

\* Witness of C21: two Creates of the absent key-1, through s1 and s2 and
\* with different values, each got 404 for its Get, sent its PUT and
\* returned nil; the backend holds the value of the second, written over
\* the value of the first.
C21_Witness ==
    /\ call[1].store = "s1"
    /\ call[2].store = "s2"
    /\ call[1].name = call[2].name
    /\ call[1].value # call[2].value
    /\ CreatedFresh(1)
    /\ CreatedFresh(2)
    /\ backend[<<"test-namespace", "/", "key-1">>].present
    /\ backend[<<"test-namespace", "/", "key-1">>].value
           = Req(2, 2).payload.value
    /\ backend[<<"test-namespace", "/", "key-1">>].value
           # Req(1, 2).payload.value

\* C22: a Set never returns kv.ErrExists, whatever Set and Create calls on
\* the same key and store overlap with it.
C22_SetNeverReturnsExists ==
    \A c \in Callers :
        (call[c].op = "Set" /\ pc[c] = "done") => ret[c].err # ErrExists

\* Caller c, before caller g, is the last to have written or deleted the
\* key of g: the calls between them are Gets or are for another key.
LastTouch(c, g) ==
    /\ c < g
    /\ call[c].op \in {"Create", "Set", "Delete"}
    /\ call[c].name = call[g].name
    /\ \A d \in (c + 1)..(g - 1) :
           call[d].op = "Get" \/ call[d].name # call[g].name

\* C23: when calls do not overlap and the backend behaves as a map, a Get
\* of k that follows a Set(k, v) or Create(k, v) that returned nil, with no
\* write or delete of k between them, returns v and no error; a Get of k
\* that follows a Delete(k) that returned nil returns kv.ErrNotExists.
C23_ReadYourWrites ==
    \A c, g \in Callers :
        (/\ call[g].op = "Get"
         /\ pc[g] = "done"
         /\ LastTouch(c, g)
         /\ ret[c].err = NilErr) =>
            IF call[c].op = "Delete"
            THEN ret[g] = [val |-> <<>>, err |-> ErrNotExists]
            ELSE ret[g] = [val |-> call[c].value, err |-> NilErr]

\* Witness of C23: key-2 was held, a Set wrote 0xFF over it and returned
\* nil, and the Get that followed returned 0xFF.
C23_Witness ==
    \E c, g \in Callers :
        /\ call[g].op = "Get"
        /\ pc[g] = "done"
        /\ LastTouch(c, g)
        /\ call[c].op = "Set"
        /\ call[c].name = <<"key-2">>
        /\ call[c].value = <<255>>
        /\ ret[c].err = NilErr
        /\ Resp(g, 1).Body.data = <<<<66, 97, 115, 101, 54, 52, 58, 47, 119, 61, 61>>>>
        /\ ret[g].val = <<255>>

\* What Get of the static store returns for key k while k is configured
\* as at the start, or is not configured.
Configured(k) ==
    IF k \in DOMAIN entries
    THEN [val |-> AllEntries[k], err |-> NilErr]
    ELSE [val |-> <<>>, err |-> Err("kes.ErrKeyNotFound", "", NoBody)]

C24_State ==
    /\ entries \in StaticConfigs
    /\ \A c \in Callers :
           StaticDone(c, "Get") => ret[c] = Configured(call[c].name)
    /\ \A c, d \in Callers :
           (/\ StaticDone(c, "Get")
            /\ StaticDone(d, "Get")
            /\ call[c].name = call[d].name) => ret[c] = ret[d]

C24_Step == entries' = entries

Last(q) == q[Len(q)]

C25_State ==
    \A c \in Callers :
        ListedOk(c) =>
            LET names == Listed(c).Body.credentials
                k == iter[c].index
            IN  /\ k <= Len(names)
                /\ closed[c] = <<>> =>
                       iter[c].keys = [i \in 1..Len(names) |-> Unprefixed(names[i])]
                /\ closed[c] # <<>> => iter[c].keys = <<>>
                /\ \A i \in 1..Len(yield[c]) :
                       IF i <= k
                       THEN yield[c][i] = [key |-> Unprefixed(names[i]),
                                           more |-> i < Len(names)]
                       ELSE yield[c][i] = [key |-> <<>>, more |-> FALSE]

C25_Step ==
    \A c \in Callers :
        /\ iter'[c].index \in {iter[c].index, iter[c].index + 1}
        /\ iter'[c].index = iter[c].index + 1 =>
               /\ Len(yield'[c]) = Len(yield[c]) + 1
               /\ Last(yield'[c]).key = iter[c].keys[iter[c].index + 1]
        /\ (closed[c] # <<>> /\ yield'[c] # yield[c]) =>
               /\ yield'[c] = Append(yield[c], [key |-> <<>>, more |-> FALSE])
               /\ iter'[c].index = iter[c].index
        /\ closed'[c] # closed[c] =>
               closed'[c] = Append(closed[c], IF c \in cancelled
                                              THEN Err("context canceled", "", NoBody)
                                              ELSE NilErr)
        /\ backend' # backend => (iter' = iter /\ yield' = yield)

\* C25: the iterator is a snapshot with a cursor that only moves forward:
\* whatever is written or deleted after List returned, the keys it yields
\* are the first names of the response, in order, up to its cursor, and
\* every other Next returned ("", false); the cursor moves by one with each
\* Next that returns a key and not otherwise; after Close the iterator
\* holds no key, every Next returns ("", false) and leaves the cursor, and
\* Close returns the error of the context: nil unless it is cancelled.
C25_IteratorSnapshot == []C25_State /\ [][C25_Step]_vars

\* Witness of C25: a listing of two names was iterated by one key, a
\* Delete of another caller took a credential from the backend, the
\* context was cancelled, Close returned its error with the cursor at 1 of
\* 2, and the Next after it returned ("", false).
C25_Witness ==
    /\ ListedOk(1)
    /\ Len(Listed(1).Body.credentials) = 2
    /\ call[2].op = "Delete"
    /\ pc[2] = "done"
    /\ ret[2].err = NilErr
    /\ iter[1].index = 1
    /\ closed[1] = <<Err("context canceled", "", NoBody)>>
    /\ Len(yield[1]) = 2
    /\ yield[1][1].more = TRUE
    /\ yield[1][2] = [key |-> <<>>, more |-> FALSE]
====
